---------------------------- MODULE Spec2Model ----------------------------
(***************************************************************************)
(* CineStealr backend: the streaming completion client                     *)
(* (backend/llm_client.py), the tag aggregator (backend/vision.py) and the *)
(* orchestrator endpoints that drive them (backend/main.py).               *)
(*                                                                         *)
(* Three specifications share this module:                                 *)
(*   Spec      one invocation of a streaming generator of LLMService       *)
(*   SpecTags  one call of VisionService.detect_objects                    *)
(*   SpecApi   the HTTP handlers of main.py over the settings and records  *)
(***************************************************************************)
EXTENDS Integers, Sequences, FiniteSets, TLC

(***************************************************************************)
(* Bounds of the model.                                                    *)
(***************************************************************************)
\* lines the remote serves in one response before it must end the response
MaxLines == 2
\* chunks one invocation may have yielded before the remote stops sending deltas
MaxChunks == 3
\* boxes the detector reports for one image
MaxDetections == 2
\* records the upload handler creates
MaxRecords == 2
\* sides just above max_size that the images have
MaxOver == 3
\* length of the stored values decode_key is tried on
MaxStored == 4
\* days the clock of the retention model runs
MaxNow == 3
\* records of the retention model
MaxOld == 2

(***************************************************************************)
(* Program constants.                                                      *)
(***************************************************************************)
\* encode_image
max_size == 672

max_retries == 10
retry_delay == 5
\* classify_image looks at the 10 highest classes and keeps scores above 15%
TopK == 10
ScoreThreshold == 15

\* HTTP statuses the remote may answer with
StatusCodes == {200, 401, 500, 503}
\* text carried by a content delta
Contents == {"a", "b"}

\* the in-band error chunks the two generators synthesize
ErrImage == "[Error reading image: e]"
ErrConnection == "\n[Error: Connection to LLM failed.]"
ErrUnexpected == "\n[Error: e]"
ErrPrompt == "[Error: Failed to generate prompt - e]"
ErrPromptUnexpected == "[Error: e]"
ErrorChunks == {ErrImage, ErrConnection, ErrUnexpected, ErrPrompt, ErrPromptUnexpected}

VARIABLES
    op,           \* "description" | "prompt": which generator was invoked
    pc,           \* "encode" | "post" | "read" | "done"
    attempt,      \* loop variable of `for attempt in range(max_retries)`
    chunks,       \* everything the generator has yielded, in order
    served,       \* content deltas the current response has delivered so far
    lines,        \* lines read from the current response
    clock,        \* seconds spent in time.sleep
    firstChunkAt, \* clock when the first chunk was yielded, -1 before
    requests,     \* calls of requests.post
    n503,         \* attempts the remote answered with 503
    nHttp,        \* attempts the remote answered with another error status
    nNet,         \* attempts that failed at the network level
    how,          \* why the generator ended
    raised,       \* an exception left the generator
    lastRead      \* what the latest step met on the response body: a
                  \* malformed line, the connection "closed", else "none"

streamVars == <<op, pc, attempt, chunks, served, lines, clock, firstChunkAt,
                requests, n503, nHttp, nNet, how, raised, lastRead>>

VARIABLES
    detector,     \* what self.detector(image_path, conf=0.1) does for the image:
                  \* it raises (ok = FALSE) or reports boxes, given by class id
    classifier,   \* what the classifier does for the image: state "none" (not
                  \* loaded), "fail" (it raises) or "ok" with the softmax
                  \* percentage of each class
    tagPc,        \* "call" | "done"
    final_tags    \* the list detect_objects returned

tagVars == <<detector, classifier, tagPc, final_tags>>

VARIABLES
    settings,       \* the settings table: key -> [present, value]
    records,        \* the image_records table: id -> [present, media_type, tags,
                    \* description, image_prompt]
    relay,          \* the streaming response in progress, if any
    events,         \* what its event_generator has sent to the browser
    clientRequests, \* endpoint URLs the client has sent a request to for it
    httpStatus,     \* status of the last response of a handler, 0 before
    lastKey         \* the credential that was set last, by the environment at
                    \* startup or by POST /settings, if any

apiVars == <<settings, records, relay, events, clientRequests, httpStatus,
             lastKey>>

VARIABLES
    imgPc,        \* "open" | "done": position in encode_image
    img_size,     \* img.size of the opened image: <<width, height>>
    out_size      \* size of the image that is saved as JPEG

imgVars == <<imgPc, img_size, out_size>>

VARIABLES
    keyPc,        \* "call" | "done": position in decode_key
    stored,       \* the value of the llm_api_key row that decode_key is given
    decoded       \* what decode_key returned

keyVars == <<keyPc, stored, decoded>>

VARIABLES
    callIn,       \* per concurrent call: its kind, "tag" (detect_objects) or
                  \* "describe" (generate_description_stream and the loop that
                  \* consumes it), and what the models do for its image
    callPc,       \* per call: its position
    frames,       \* the local variables, per call frame: unique_tags, attempt
                  \* and full_description
    callOut,      \* per call: the tags returned and the text accumulated
    callEnv       \* per call: failed attempts and content deltas that its own
                  \* remote has answered with

concVars == <<callIn, callPc, frames, callOut, callEnv>>

VARIABLES
    retention_setting, \* the history_retention_days row: [present, value]
    image_records,     \* id -> [status, created_at]: "none" before the upload,
                       \* "stored", "deleted" once the policy has removed it
    utcnow,            \* datetime.utcnow(), in days
    lastRequest        \* what ran last: "upload", "tick", "settings", "startup"

retVars == <<retention_setting, image_records, utcnow, lastRequest>>

vars == <<streamVars, tagVars, apiVars, imgVars, keyVars, concVars, retVars>>

(***************************************************************************)
(* Lines of a response body, as response.iter_lines() delivers them.       *)
(***************************************************************************)
LineKinds == {"blank", "undecodable", "nodata", "done", "badjson", "badshape",
              "nocontent"}

Lines ==
    {[kind |-> k, content |-> ""] : k \in LineKinds}
        \cup {[kind |-> "delta", content |-> c] : c \in Contents \cup {""}}

\* The body of `for line in response.iter_lines()`: what one line makes the
\* generator do.
ParseLine(line) ==
    IF line.kind = "blank" THEN [act |-> "skip", text |-> ""]
    ELSE IF line.kind = "undecodable" THEN [act |-> "raise", text |-> ""]
    ELSE IF line.kind = "nodata" THEN [act |-> "skip", text |-> ""]
    ELSE IF line.kind = "done" THEN [act |-> "break", text |-> ""]
    ELSE IF line.kind = "badjson" THEN [act |-> "skip", text |-> ""]
    ELSE IF line.kind = "badshape" THEN [act |-> "raise", text |-> ""]
    ELSE IF line.kind = "delta" /\ line.content # ""
         THEN [act |-> "yield", text |-> line.content]
    ELSE [act |-> "skip", text |-> ""]

(***************************************************************************)
(* What each generator does with a response status and with an exception.  *)
(***************************************************************************)
\* OnStatus without the backoff before the retry
OnStatus_NoBackoff(o, status) ==
    IF o = "description" /\ status = 503
        THEN [next |-> "continue", sleep |-> 0]
    ELSE IF status >= 400 /\ status < 600
        THEN [next |-> "RequestException", sleep |-> 0]
    ELSE [next |-> "iterate", sleep |-> 0]

\* OnStatus with the 503 retry in both generators
OnStatus_PromptRetries(o, status) ==
    IF status = 503
        THEN [next |-> "continue", sleep |-> retry_delay]
    ELSE IF status >= 400 /\ status < 600
        THEN [next |-> "RequestException", sleep |-> 0]
    ELSE [next |-> "iterate", sleep |-> 0]

\* OnStatus without response.raise_for_status(): the body of an error
\* response is read like any other
OnStatus_NoRaiseForStatus(o, status) ==
    IF o = "description" /\ status = 503
        THEN [next |-> "continue", sleep |-> retry_delay]
    ELSE [next |-> "iterate", sleep |-> 0]

\* 503 check and response.raise_for_status()
OnStatus(o, status) ==
    IF o = "description" /\ status = 503
        THEN [next |-> "continue", sleep |-> retry_delay]
    ELSE IF status >= 400 /\ status < 600
        THEN [next |-> "RequestException", sleep |-> 0]
    ELSE [next |-> "iterate", sleep |-> 0]

\* OnRequestException without the test for the last attempt
OnRequestException_YieldEveryFailure(o, att) ==
    IF o = "description"
        THEN [yield |-> <<ErrConnection>>, sleep |-> retry_delay, next |-> "continue"]
    ELSE [yield |-> <<ErrPrompt>>, sleep |-> 0, next |-> "return"]

\* OnRequestException going to the next attempt at once
OnRequestException_NoBackoff(o, att) ==
    IF o = "description"
        THEN [yield |-> IF att = max_retries - 1 THEN <<ErrConnection>> ELSE <<>>,
              sleep |-> 0, next |-> "continue"]
    ELSE [yield |-> <<ErrPrompt>>, sleep |-> 0, next |-> "return"]

\* except requests.exceptions.RequestException
OnRequestException(o, att) ==
    IF o = "description"
        THEN [yield |-> IF att = max_retries - 1 THEN <<ErrConnection>> ELSE <<>>,
              sleep |-> retry_delay, next |-> "continue"]
    ELSE [yield |-> <<ErrPrompt>>, sleep |-> 0, next |-> "return"]

\* OnException going on to the next attempt after the backoff
OnException_Retries(o) ==
    IF o = "description"
        THEN [yield |-> <<ErrUnexpected>>, sleep |-> retry_delay, next |-> "continue"]
    ELSE [yield |-> <<ErrPromptUnexpected>>, sleep |-> 0, next |-> "return"]

\* except Exception
OnException(o) ==
    IF o = "description"
        THEN [yield |-> <<ErrUnexpected>>, sleep |-> 0, next |-> "return"]
    ELSE [yield |-> <<ErrPromptUnexpected>>, sleep |-> 0, next |-> "return"]

\* encode_image: the base64 text of the JPEG, or the exception it logs and
\* raises again when the image cannot be opened or decoded
encode_image(readable) == IF readable THEN "base64" ELSE "raise"

\* OnEncodeError going on to the request after the error chunk
OnEncodeError_GoesOn == [yield |-> <<ErrImage>>, sleep |-> 0, next |-> "continue"]

\* except Exception around encode_image
OnEncodeError == [yield |-> <<ErrImage>>, sleep |-> 0, next |-> "return"]

(***************************************************************************)
(* One step of the generator: yield h.yield, sleep h.sleep, then go on as  *)
(* h.next says.  `continue` is the next iteration of the attempt loop,     *)
(* which ends the generator when the range is used up.                     *)
(***************************************************************************)
Step(h, why) ==
    /\ chunks' = chunks \o h.yield
    /\ firstChunkAt' = IF firstChunkAt = -1 /\ h.yield # <<>> THEN clock
                       ELSE firstChunkAt
    /\ clock' = clock + h.sleep
    /\ raised' = (raised \/ h.next = "raise")
    /\ IF h.next = "continue" /\ attempt + 1 < max_retries
           THEN /\ attempt' = attempt + 1
                /\ pc' = "post"
                /\ how' = how
                /\ served' = <<>>
                /\ lines' = 0
           ELSE /\ attempt' = attempt
                /\ pc' = "done"
                /\ how' = IF h.next = "continue" THEN "exhausted" ELSE why
                /\ UNCHANGED <<served, lines>>

(***************************************************************************)
(* VisionService (backend/vision.py).  A label is a sequence of            *)
(* characters.                                                             *)
(***************************************************************************)
\* self.detector.names: the class names of the detection model
names == << <<"c", "a", "t">>, <<"t", " ", "l">> >>

\* self.labels_map: the ImageNet class labels, by class index
labels_map == << <<"t", "_", "l">>, <<"E", "_", "c">>, <<"c", "a", "t">> >>

\* percentages a class can get; they add up to at most 100 over the classes
ScoreValues == {0, 15, 16, 60}

RECURSIVE SumScores(_, _)
SumScores(f, n) == IF n = 0 THEN 0 ELSE f[n] + SumScores(f, n - 1)

Distributions ==
    {f \in [1..Len(labels_map) -> ScoreValues] : SumScores(f, Len(labels_map)) <= 100}

RECURSIVE SeqsUpTo(_, _)
SeqsUpTo(S, n) ==
    IF n = 0 THEN {<<>>}
    ELSE LET shorter == SeqsUpTo(S, n - 1) IN
         shorter \cup {Append(q, x) : q \in shorter, x \in S}

DetectorFails == [ok |-> FALSE, boxes |-> <<>>]

DetectorOutcomes ==
    {DetectorFails}
        \cup {[ok |-> TRUE, boxes |-> b] : b \in SeqsUpTo(1..Len(names), MaxDetections)}

NoScores == [c \in 1..Len(labels_map) |-> 0]

ClassifierOutcomes ==
    {[state |-> st, scores |-> NoScores] : st \in {"none", "fail"}}
        \cup {[state |-> "ok", scores |-> f] : f \in Distributions}

\* label.replace('_', ' ')
Replace(label) == [i \in 1..Len(label) |-> IF label[i] = "_" THEN " " ELSE label[i]]

\* torch.sort(out, descending=True): the class indices by falling score
RECURSIVE SortDescending(_, _)
SortDescending(scores, left) ==
    IF left = {} THEN <<>>
    ELSE LET best == CHOOSE c \in left :
                        \A d \in left : scores[c] > scores[d] \/ (scores[c] = scores[d] /\ c <= d)
         IN <<best>> \o SortDescending(scores, left \ {best})

\* TopResults keeping a score that equals the threshold
RECURSIVE TopResults_AtThreshold(_, _)
TopResults_AtThreshold(scores, indices) ==
    IF indices = <<>> THEN <<>>
    ELSE LET idx == Head(indices)
             rest == TopResults_AtThreshold(scores, Tail(indices))
         IN IF scores[idx] >= ScoreThreshold
                THEN <<Replace(labels_map[idx])>> \o rest
                ELSE rest

\* the loop over indices[0][:10]
RECURSIVE TopResults(_, _)
TopResults(scores, indices) ==
    IF indices = <<>> THEN <<>>
    ELSE LET idx == Head(indices)
             rest == TopResults(scores, Tail(indices))
         IN IF scores[idx] > ScoreThreshold
                THEN <<Replace(labels_map[idx])>> \o rest
                ELSE rest

classify_image(cls) ==
    IF cls.state = "none" THEN <<>>
    ELSE IF cls.state = "fail" THEN <<>>
    ELSE LET indices == SortDescending(cls.scores, DOMAIN cls.scores)
             top == SubSeq(indices, 1, IF Len(indices) < TopK THEN Len(indices) ELSE TopK)
         IN TopResults(cls.scores, top)

\* yolo_tags: the name of every box, in order; nothing when the detector raises
YoloTags(det) ==
    IF ~det.ok THEN <<>> ELSE [i \in 1..Len(det.boxes) |-> names[det.boxes[i]]]

Range(q) == {q[i] : i \in 1..Len(q)}

\* unique_tags after the detector loop and unique_tags.update(scene_tags)
UniqueTags(det, cls) == Range(YoloTags(det)) \cup Range(classify_image(cls))

Orderings(S) ==
    {q \in [1..Cardinality(S) -> S] : \A i, j \in 1..Cardinality(S) : q[i] = q[j] => i = j}

\* detect_objects with the classification inside the detector's try block
detect_objects_DetectorAborts(det, cls) ==
    IF ~det.ok THEN {<<>>} ELSE Orderings(UniqueTags(det, cls))

\* detect_objects with a list in place of the set
detect_objects_NoSet(det, cls) == {YoloTags(det) \o classify_image(cls)}

\* the lists detect_objects can return: list(unique_tags), in any order
detect_objects(det, cls) == Orderings(UniqueTags(det, cls))

IdleTags ==
    /\ detector = DetectorFails
    /\ classifier = [state |-> "none", scores |-> NoScores]
    /\ tagPc = "done"
    /\ final_tags = <<>>

InitTags ==
    /\ detector \in DetectorOutcomes
    /\ classifier \in ClassifierOutcomes
    /\ tagPc = "call"
    /\ final_tags = <<>>

DetectObjects ==
    /\ tagPc = "call"
    /\ final_tags' \in detect_objects(detector, classifier)
    /\ tagPc' = "done"
    /\ UNCHANGED <<detector, classifier>>
    /\ UNCHANGED <<streamVars, apiVars, imgVars, keyVars, concVars, retVars>>

NextTags == DetectObjects


(***************************************************************************)
(* Strings of main.py are sequences of code points; bytes are sequences of *)
(* 0..255.                                                                 *)
(***************************************************************************)
\* str.encode(): UTF-8
RECURSIVE Utf8Encode(_)
Utf8Encode(str) ==
    IF str = <<>> THEN <<>>
    ELSE LET cp == Head(str)
             first == IF cp < 128 THEN <<cp>>
                      ELSE IF cp < 2048 THEN <<192 + (cp \div 64), 128 + (cp % 64)>>
                      ELSE IF cp < 65536
                          THEN <<224 + (cp \div 4096), 128 + ((cp \div 64) % 64), 128 + (cp % 64)>>
                      ELSE <<240 + (cp \div 262144), 128 + ((cp \div 4096) % 64),
                             128 + ((cp \div 64) % 64), 128 + (cp % 64)>>
         IN first \o Utf8Encode(Tail(str))

IsContinuation(b) == b >= 128 /\ b <= 191

\* bytes.decode(): strict UTF-8; ok = FALSE stands for UnicodeDecodeError
RECURSIVE Utf8Decode(_)
Utf8Decode(bytes) ==
    IF bytes = <<>> THEN [ok |-> TRUE, value |-> <<>>]
    ELSE LET b == bytes[1]
             n == IF b < 128 THEN 1
                  ELSE IF b >= 194 /\ b <= 223 THEN 2
                  ELSE IF b >= 224 /\ b <= 239 THEN 3
                  ELSE IF b >= 240 /\ b <= 244 THEN 4
                  ELSE 0
         IN IF n = 0 \/ Len(bytes) < n
                \/ \E i \in 2..n : ~IsContinuation(bytes[i])
                THEN [ok |-> FALSE, value |-> <<>>]
            ELSE LET cp == IF n = 1 THEN b
                           ELSE IF n = 2 THEN (b - 192) * 64 + (bytes[2] - 128)
                           ELSE IF n = 3
                               THEN (b - 224) * 4096 + (bytes[2] - 128) * 64 + (bytes[3] - 128)
                           ELSE (b - 240) * 262144 + (bytes[2] - 128) * 4096
                                    + (bytes[3] - 128) * 64 + (bytes[4] - 128)
                     valid == IF n = 3 THEN cp >= 2048 /\ ~(cp >= 55296 /\ cp <= 57343)
                              ELSE IF n = 4 THEN cp >= 65536 /\ cp <= 1114111
                              ELSE TRUE
                     rest == Utf8Decode(SubSeq(bytes, n + 1, Len(bytes)))
                 IN IF valid /\ rest.ok
                        THEN [ok |-> TRUE, value |-> <<cp>> \o rest.value]
                        ELSE [ok |-> FALSE, value |-> <<>>]

\* the base64 alphabet: the character of a 6-bit value
B64Char(v) ==
    IF v < 26 THEN 65 + v
    ELSE IF v < 52 THEN 97 + (v - 26)
    ELSE IF v < 62 THEN 48 + (v - 52)
    ELSE IF v = 62 THEN 43
    ELSE 47

B64Pad == 61

\* the 6-bit value of a character, 64 for a character outside the alphabet
B64Value(c) ==
    IF c >= 65 /\ c <= 90 THEN c - 65
    ELSE IF c >= 97 /\ c <= 122 THEN c - 97 + 26
    ELSE IF c >= 48 /\ c <= 57 THEN c - 48 + 52
    ELSE IF c = 43 THEN 62
    ELSE IF c = 47 THEN 63
    ELSE 64

\* base64.b64encode
RECURSIVE b64encode(_)
b64encode(bytes) ==
    IF bytes = <<>> THEN <<>>
    ELSE IF Len(bytes) = 1
        THEN <<B64Char(bytes[1] \div 4), B64Char((bytes[1] % 4) * 16), B64Pad, B64Pad>>
    ELSE IF Len(bytes) = 2
        THEN <<B64Char(bytes[1] \div 4),
               B64Char((bytes[1] % 4) * 16 + (bytes[2] \div 16)),
               B64Char((bytes[2] % 16) * 4), B64Pad>>
    ELSE <<B64Char(bytes[1] \div 4),
           B64Char((bytes[1] % 4) * 16 + (bytes[2] \div 16)),
           B64Char((bytes[2] % 16) * 4 + (bytes[3] \div 64)),
           B64Char(bytes[3] % 64)>> \o b64encode(SubSeq(bytes, 4, Len(bytes)))

\* base64.b64decode without validation (binascii.a2b_base64): characters
\* outside the alphabet are dropped, a complete pad sequence ends the input,
\* and an unfinished group of characters is an error (ok = FALSE).
RECURSIVE a2b_base64(_, _, _, _, _)
a2b_base64(data, quad_pos, leftchar, pads, out) ==
    IF data = <<>> THEN [ok |-> quad_pos = 0, value |-> out]
    ELSE LET c == Head(data)
             rest == Tail(data)
             v == B64Value(c)
         IN IF c = B64Pad
                THEN IF quad_pos >= 2 /\ quad_pos + pads + 1 >= 4
                         THEN [ok |-> TRUE, value |-> out]
                     ELSE a2b_base64(rest, quad_pos, leftchar,
                                     IF quad_pos >= 2 THEN pads + 1 ELSE pads, out)
            ELSE IF v = 64 THEN a2b_base64(rest, quad_pos, leftchar, pads, out)
            ELSE IF quad_pos = 0 THEN a2b_base64(rest, 1, v, 0, out)
            ELSE IF quad_pos = 1
                THEN a2b_base64(rest, 2, v % 16, 0, Append(out, leftchar * 4 + (v \div 16)))
            ELSE IF quad_pos = 2
                THEN a2b_base64(rest, 3, v % 4, 0, Append(out, leftchar * 16 + (v \div 4)))
            ELSE a2b_base64(rest, 0, 0, 0, Append(out, leftchar * 64 + v))

b64decode(bytes) == a2b_base64(bytes, 0, 0, 0, <<>>)

\* encode_key storing the credential as it is
encode_key_Plain(key) == key

\* the base64 text is ASCII: bytes.decode() of it is the same sequence
encode_key(key) ==
    IF key = <<>> THEN <<>> ELSE b64encode(Utf8Encode(key))

decode_key(encoded_key) ==
    IF encoded_key = <<>> THEN <<>>
    ELSE LET raw == b64decode(Utf8Encode(encoded_key))
             text == Utf8Decode(raw.value)
         IN IF raw.ok /\ text.ok THEN text.value ELSE encoded_key

(***************************************************************************)
(* decode_key on any value the llm_api_key row may hold, written by        *)
(* encode_key or not.                                                      *)
(***************************************************************************)
\* characters of the stored values: "Y", "Q", "=", "-", " " and e-acute
StoredChars == {89, 81, 61, 45, 32, 233}

StoredValues == UNION {[1..n -> StoredChars] : n \in 0..MaxStored}

InitKey ==
    /\ keyPc = "call"
    /\ stored \in StoredValues
    /\ decoded = <<>>

IdleKey ==
    /\ keyPc = "done"
    /\ stored = <<>>
    /\ decoded = <<>>

DecodeKey ==
    /\ keyPc = "call"
    /\ decoded' = decode_key(stored)
    /\ keyPc' = "done"
    /\ UNCHANGED stored
    /\ UNCHANGED <<streamVars, tagVars, apiVars, imgVars, concVars, retVars>>

NextKey == DecodeKey

\* the value is encode_key(k) for some credential k: decoding it and encoding
\* the result again gives the value back
IsEncodeKeyOutput(value) ==
    \/ value = <<>>
    \/ LET raw == b64decode(Utf8Encode(value))
           text == Utf8Decode(raw.value)
       IN raw.ok /\ text.ok /\ encode_key(text.value) = value

\* C19: decode_key returns a stored value that encode_key did not write
\* unchanged, as the plain credential.
C19_PlainValuesAreReturnedUnchanged ==
    (keyPc = "done" /\ ~IsEncodeKeyOutput(stored)) => decoded = stored


(***************************************************************************)
(* The handlers of backend/main.py.                                        *)
(***************************************************************************)
\* LLM_API_URL of llm_client.py, the only endpoint its generators post to: "L"
LLM_API_URL == <<76>>

SettingKeys == {"llm_api_url", "llm_api_key", "llm_model_name"}

\* values a client posts to /settings: URLs "U1", "U2"; credentials "YQ==",
\* "e-acute" and the empty string; model name "m"
SettingValues(key) ==
    IF key = "llm_api_url" THEN {<<85, 49>>, <<85, 50>>}
    ELSE IF key = "llm_api_key"
        THEN {<<89, 81, 61, 61>>, <<233>>, <<>>}
    ELSE {<<109>>}

Absent == [present |-> FALSE, value |-> <<>>]

\* `row.value if row else None`
ValueOrNone(row) == IF row.present THEN [none |-> FALSE, value |-> row.value]
                    ELSE [none |-> TRUE, value |-> <<>>]

\* GET /settings: the stored settings, the credential decoded
get_settings(table) ==
    [k \in {key \in SettingKeys : table[key].present} |->
        IF k = "llm_api_key" THEN decode_key(table[k].value) ELSE table[k].value]

\* `decode_key(row.value) if row else None`
KeyOrNone(row) == IF row.present THEN [none |-> FALSE, value |-> decode_key(row.value)]
                  ELSE [none |-> TRUE, value |-> <<>>]

NoRecord == [present |-> FALSE, media_type |-> "image", tags |-> <<>>,
             description |-> <<>>, image_prompt |-> [none |-> TRUE, value |-> <<>>]]

\* ",".join(tags)
RECURSIVE Join(_)
Join(tags) ==
    IF tags = <<>> THEN <<>>
    ELSE IF Len(tags) = 1 THEN tags[1]
    ELSE tags[1] \o <<",">> \o Join(Tail(tags))

\* what the two models do for the images that are uploaded
UploadDetections == {DetectorFails, [ok |-> TRUE, boxes |-> <<1>>]}

UploadClassifications == {[state |-> "fail", scores |-> NoScores]}

\* str.strip()
Whitespace == {9, 10, 11, 12, 13, 28, 29, 30, 31, 32, 133, 160}

RECURSIVE LStrip(_)
LStrip(str) ==
    IF str # <<>> /\ Head(str) \in Whitespace THEN LStrip(Tail(str)) ELSE str

RECURSIVE RStrip(_)
RStrip(str) ==
    IF str # <<>> /\ str[Len(str)] \in Whitespace
        THEN RStrip(SubSeq(str, 1, Len(str) - 1)) ELSE str

Strip(str) == RStrip(LStrip(str))

RECURSIVE Concat(_)
Concat(texts) == IF texts = <<>> THEN <<>> ELSE Head(texts) \o Concat(Tail(texts))

\* f"data: {text}\n\n"
Frame(text) == <<100, 97, 116, 97, 58, 32>> \o text \o <<10, 10>>

\* "[DONE]"
DoneText == <<91, 68, 79, 78, 69, 93>>

\* f"[ERROR] {str(e)}", with "e" for the message
ErrorText == <<91, 69, 82, 82, 79, 82, 93, 32, 101>>

\* parameters, besides self, of the two generators of LLMService
Parameters(kind) ==
    IF kind = "stream" THEN {"image_path", "media_type"}
    ELSE {"description", "tags"}

\* keyword arguments of the calls in the two event_generators
CallKeywords == {"api_url", "api_key", "model_name"}

\* The call of the generator function and the start of the loop over it.  A
\* call with a keyword the function does not take raises TypeError, and so
\* does `async for` over a plain generator (the /stream handler).
OpenClientStream(kind) ==
    IF ~(CallKeywords \subseteq Parameters(kind)) THEN "TypeError"
    ELSE IF kind = "stream" THEN "TypeError"
    ELSE "generator"

\* chunks a generator of LLMService can hand to the loop: "a", " ", "" and
\* the error chunk "\n[Error: e]"
ChunkTexts == {<<97>>, <<32>>, <<>>, <<10, 91, 69, 114, 114, 111, 114, 58, 32, 101, 93>>}

ClientRuns == SeqsUpTo(ChunkTexts, 2)

\* `if chunk:` full += chunk; yield f"data: {chunk}\n\n"
RelayedChunks(run) == SelectSeq(run, LAMBDA c : c # <<>>)

RECURSIVE Frames(_)
Frames(texts) ==
    IF texts = <<>> THEN <<>> ELSE <<Frame(Head(texts))>> \o Frames(Tail(texts))

NoRelay == [pc |-> "idle", kind |-> "stream", id |-> 0,
            api_url |-> [none |-> TRUE, value |-> <<>>],
            api_key |-> [none |-> TRUE, value |-> <<>>],
            model_name |-> [none |-> TRUE, value |-> <<>>]]

IdleApi ==
    /\ settings = [k \in SettingKeys |-> Absent]
    /\ records = [i \in 1..MaxRecords |-> NoRecord]
    /\ relay = NoRelay
    /\ events = <<>>
    /\ clientRequests = <<>>
    /\ httpStatus = 0
    /\ lastKey = [none |-> TRUE, value |-> <<>>]

\* the state once startup_event has run on an empty database: the endpoint URL
\* is set, the credential and the model name are set when the environment
\* names them
InitApi ==
    /\ \E url \in SettingValues("llm_api_url"),
          init_key \in SettingValues("llm_api_key"),
          init_model \in SettingValues("llm_model_name") \cup {<<>>} :
          /\ settings = [k \in SettingKeys |->
                         IF k = "llm_api_url" THEN [present |-> TRUE, value |-> url]
                         ELSE IF k = "llm_api_key"
                             THEN IF init_key # <<>>
                                      THEN [present |-> TRUE, value |-> encode_key(init_key)]
                                      ELSE Absent
                         ELSE IF init_model # <<>>
                             THEN [present |-> TRUE, value |-> init_model]
                             ELSE Absent]
          /\ lastKey = [none |-> init_key = <<>>, value |-> init_key]
    /\ records = [i \in 1..MaxRecords |-> NoRecord]
    /\ relay = NoRelay
    /\ events = <<>>
    /\ clientRequests = <<>>
    /\ httpStatus = 0

ApiOnly == UNCHANGED <<streamVars, tagVars, imgVars, keyVars, concVars, retVars>>

\* POST /upload
UploadImage ==
    /\ relay.pc # "open"
    /\ \E id \in 1..MaxRecords, media_type \in {"image", "movie"},
          det \in UploadDetections, cls \in UploadClassifications :
          /\ ~records[id].present
          /\ \A j \in 1..MaxRecords : records[j].present => j < id
          /\ \E tags \in detect_objects(det, cls) :
                records' = [records EXCEPT ![id] =
                               [present |-> TRUE, media_type |-> media_type,
                                tags |-> Join(tags), description |-> <<>>,
                                image_prompt |-> [none |-> TRUE, value |-> <<>>]]]
    /\ httpStatus' = 200
    /\ UNCHANGED <<settings, relay, events, clientRequests, lastKey>>
    /\ ApiOnly

\* POST /upload when saving the file or the commit raises
UploadFails ==
    /\ relay.pc # "open"
    /\ httpStatus' = 500
    /\ UNCHANGED <<settings, records, relay, events, clientRequests, lastKey>>
    /\ ApiOnly

\* POST /settings, for the keys of the LLM provider
UpdateSetting ==
    /\ relay.pc # "open"
    /\ \E key \in SettingKeys : \E value \in SettingValues(key) :
          LET value_to_store == IF key = "llm_api_key" THEN encode_key(value) ELSE value
          IN /\ settings' = [settings EXCEPT ![key] =
                                [present |-> TRUE, value |-> value_to_store]]
             /\ lastKey' = IF key = "llm_api_key"
                               THEN [none |-> FALSE, value |-> value]
                               ELSE lastKey
    /\ httpStatus' = 200
    /\ UNCHANGED <<records, relay, events, clientRequests>>
    /\ ApiOnly

\* OpenRelay without the test of record.description
OpenRelay_NoDescriptionCheck(kind, id) ==
    /\ relay.pc # "open"
    /\ IF id \notin 1..MaxRecords \/ ~records[id].present
           THEN /\ httpStatus' = 404
                /\ UNCHANGED <<relay, events, clientRequests>>
       ELSE /\ httpStatus' = 200
            /\ relay' = [pc |-> "open", kind |-> kind, id |-> id,
                         api_url |-> ValueOrNone(settings["llm_api_url"]),
                         api_key |-> KeyOrNone(settings["llm_api_key"]),
                         model_name |-> ValueOrNone(settings["llm_model_name"])]
            /\ events' = <<>>
            /\ clientRequests' = <<>>
    /\ UNCHANGED <<settings, records, lastKey>>
    /\ ApiOnly

\* GET /stream/{record_id} and GET /generate-prompt/{record_id}, up to the
\* StreamingResponse
OpenRelay(kind, id) ==
    /\ relay.pc # "open"
    /\ IF id \notin 1..MaxRecords \/ ~records[id].present
           THEN /\ httpStatus' = 404
                /\ UNCHANGED <<relay, events, clientRequests>>
       ELSE IF kind = "prompt" /\ records[id].description = <<>>
           THEN /\ httpStatus' = 400
                /\ UNCHANGED <<relay, events, clientRequests>>
       ELSE /\ httpStatus' = 200
            /\ relay' = [pc |-> "open", kind |-> kind, id |-> id,
                         api_url |-> ValueOrNone(settings["llm_api_url"]),
                         api_key |-> KeyOrNone(settings["llm_api_key"]),
                         model_name |-> ValueOrNone(settings["llm_model_name"])]
            /\ events' = <<>>
            /\ clientRequests' = <<>>
    /\ UNCHANGED <<settings, records, lastKey>>
    /\ ApiOnly

\* event_generator of either handler, run to its end
EventGenerator ==
    /\ relay.pc = "open"
    /\ relay' = [relay EXCEPT !.pc = "done"]
    /\ IF OpenClientStream(relay.kind) = "TypeError"
           THEN /\ events' = <<Frame(ErrorText)>>
                /\ UNCHANGED <<records, clientRequests>>
           ELSE \E run \in ClientRuns :
                   LET relayed == RelayedChunks(run)
                       text == Strip(Concat(relayed))
                   IN /\ events' = Frames(relayed) \o <<Frame(DoneText)>>
                      /\ clientRequests' = <<LLM_API_URL>>
                      /\ records' = [records EXCEPT ![relay.id] =
                             IF relay.kind = "stream"
                                 THEN [@ EXCEPT !.description = text]
                                 ELSE [@ EXCEPT !.image_prompt =
                                          [none |-> FALSE, value |-> text]]]
    /\ UNCHANGED <<settings, httpStatus, lastKey>>
    /\ ApiOnly

NextApi ==
    \/ UploadImage
    \/ UploadFails
    \/ UpdateSetting
    \/ \E kind \in {"stream", "prompt"}, id \in 1..MaxRecords : OpenRelay(kind, id)
    \/ EventGenerator


(***************************************************************************)
(* enforce_retention_policy, at startup and after POST /settings for the   *)
(* key history_retention_days.  Time is counted in days.                   *)
(***************************************************************************)
Digits == 48..57

RECURSIVE DigitsValue(_)
DigitsValue(str) ==
    IF str = <<>> THEN 0
    ELSE 10 * DigitsValue(SubSeq(str, 1, Len(str) - 1)) + (str[Len(str)] - 48)

\* int(value): whitespace around, an optional sign, decimal digits; anything
\* else raises ValueError
ParseInt(value) ==
    LET text == Strip(value)
        signed == text # <<>> /\ text[1] \in {43, 45}
        digits == IF signed THEN Tail(text) ELSE text
    IN IF digits # <<>> /\ \A i \in 1..Len(digits) : digits[i] \in Digits
           THEN [ok |-> TRUE,
                 value |-> IF signed /\ text[1] = 45 THEN 0 - DigitsValue(digits)
                           ELSE DigitsValue(digits)]
           ELSE [ok |-> FALSE, value |-> 0]

\* enforce_retention_policy deleting the records at the cutoff as well
enforce_retention_policy_Inclusive(setting, recs, now) ==
    IF ~setting.present \/ setting.value = <<>> THEN recs
    ELSE LET days == ParseInt(setting.value) IN
         IF ~days.ok THEN recs
         ELSE IF days.value <= 0 THEN recs
         ELSE LET cutoff_date == now - days.value IN
              [id \in DOMAIN recs |->
                  IF recs[id].status = "stored" /\ recs[id].created_at <= cutoff_date
                      THEN [recs[id] EXCEPT !.status = "deleted"]
                      ELSE recs[id]]

\* the image_records table after enforce_retention_policy
enforce_retention_policy(setting, recs, now) ==
    IF ~setting.present \/ setting.value = <<>> THEN recs
    ELSE LET days == ParseInt(setting.value) IN
         IF ~days.ok THEN recs
         ELSE IF days.value <= 0 THEN recs
         ELSE LET cutoff_date == now - days.value IN
              [id \in DOMAIN recs |->
                  IF recs[id].status = "stored" /\ recs[id].created_at < cutoff_date
                      THEN [recs[id] EXCEPT !.status = "deleted"]
                      ELSE recs[id]]

\* values a client posts for history_retention_days: "", "0", "-1", "1", "2",
\* " 2", "+1", "x" and "1.5"
RetentionValues == {<<>>, <<48>>, <<45, 49>>, <<49>>, <<50>>, <<32, 50>>,
                    <<43, 49>>, <<120>>, <<49, 46, 53>>}

InitRetention ==
    /\ retention_setting = [present |-> FALSE, value |-> <<>>]
    /\ image_records = [id \in 1..MaxOld |-> [status |-> "none", created_at |-> 0]]
    /\ utcnow = 0
    /\ lastRequest = "startup"

IdleRetention ==
    /\ retention_setting = [present |-> FALSE, value |-> <<>>]
    /\ image_records = [id \in 1..MaxOld |-> [status |-> "none", created_at |-> 0]]
    /\ utcnow = 0
    /\ lastRequest = "none"

RetentionOnly == UNCHANGED <<streamVars, tagVars, apiVars, imgVars, keyVars, concVars>>

\* POST /upload: the new record gets created_at = datetime.utcnow()
RetentionUpload ==
    /\ \E id \in 1..MaxOld :
          /\ image_records[id].status = "none"
          /\ image_records' = [image_records EXCEPT
                                   ![id] = [status |-> "stored", created_at |-> utcnow]]
    /\ lastRequest' = "upload"
    /\ UNCHANGED <<retention_setting, utcnow>>
    /\ RetentionOnly

\* a day passes
RetentionTick ==
    /\ utcnow < MaxNow
    /\ utcnow' = utcnow + 1
    /\ lastRequest' = "tick"
    /\ UNCHANGED <<retention_setting, image_records>>
    /\ RetentionOnly

\* POST /settings with key history_retention_days
UpdateRetention ==
    /\ \E value \in RetentionValues :
          LET row == [present |-> TRUE, value |-> value] IN
              /\ retention_setting' = row
              /\ image_records' = enforce_retention_policy(row, image_records, utcnow)
    /\ lastRequest' = "settings"
    /\ UNCHANGED utcnow
    /\ RetentionOnly

\* startup_event, when the service is started again
RetentionStartup ==
    /\ image_records' = enforce_retention_policy(retention_setting, image_records, utcnow)
    /\ lastRequest' = "startup"
    /\ UNCHANGED <<retention_setting, utcnow>>
    /\ RetentionOnly

NextRetention ==
    \/ RetentionUpload
    \/ RetentionTick
    \/ UpdateRetention
    \/ RetentionStartup


StreamOnly == UNCHANGED <<tagVars, apiVars, imgVars, keyVars, concVars, retVars>>

\* lines that are no well-formed delta: no "data: " prefix, a payload that
\* is no JSON, JSON without choices[0].delta
MalformedKinds == {"nodata", "badjson", "badshape"}

\* a step that reads no line
NoLine == lastRead' = "none"

InitStream ==
    /\ op \in {"description", "prompt"}
    /\ pc = IF op = "description" THEN "encode" ELSE "post"
    /\ attempt = 0
    /\ chunks = <<>>
    /\ served = <<>>
    /\ lines = 0
    /\ clock = 0
    /\ firstChunkAt = -1
    /\ requests = 0
    /\ n503 = 0
    /\ nHttp = 0
    /\ nNet = 0
    /\ how = "running"
    /\ raised = FALSE
    /\ lastRead = "none"

IdleStream ==
    /\ op = "none"
    /\ pc = "done"
    /\ attempt = 0
    /\ chunks = <<>>
    /\ served = <<>>
    /\ lines = 0
    /\ clock = 0
    /\ firstChunkAt = -1
    /\ requests = 0
    /\ n503 = 0
    /\ nHttp = 0
    /\ nNet = 0
    /\ how = "running"
    /\ raised = FALSE
    /\ lastRead = "none"

\* base64_image = self.encode_image(image_path), which raises when the image
\* cannot be opened or decoded
EncodeImage ==
    /\ pc = "encode"
    /\ \E readable \in BOOLEAN :
          IF encode_image(readable) # "raise"
              THEN /\ pc' = "post"
                   /\ UNCHANGED <<attempt, chunks, served, lines, clock,
                                  firstChunkAt, how, raised>>
              ELSE Step(OnEncodeError, "image_error")
    /\ UNCHANGED <<op, requests, n503, nHttp, nNet>>
    /\ NoLine
    /\ StreamOnly

\* requests.post raises a RequestException (connection refused, timeout)
PostNetworkFailure ==
    /\ pc = "post"
    /\ requests' = requests + 1
    /\ nNet' = nNet + 1
    /\ Step(OnRequestException(op, attempt), "request_error")
    /\ UNCHANGED <<op, n503, nHttp>>
    /\ NoLine
    /\ StreamOnly

\* requests.post raises something that is no RequestException
PostUnexpected ==
    /\ pc = "post"
    /\ requests' = requests + 1
    /\ Step(OnException(op), "unexpected")
    /\ UNCHANGED <<op, n503, nHttp, nNet>>
    /\ NoLine
    /\ StreamOnly

\* requests.post returns a response with the given status
PostResponse(status) ==
    /\ pc = "post"
    /\ requests' = requests + 1
    /\ n503' = IF status = 503 THEN n503 + 1 ELSE n503
    /\ nHttp' = IF status >= 400 /\ status # 503 THEN nHttp + 1 ELSE nHttp
    /\ LET a == OnStatus(op, status) IN
          IF a.next = "continue"
              THEN Step([yield |-> <<>>, sleep |-> a.sleep, next |-> "continue"],
                        "exhausted")
          ELSE IF a.next = "RequestException"
              THEN Step(OnRequestException(op, attempt), "request_error")
          ELSE /\ pc' = "read"
               /\ UNCHANGED <<attempt, chunks, served, lines, clock,
                              firstChunkAt, how, raised>>
    /\ UNCHANGED <<op, nNet>>
    /\ NoLine
    /\ StreamOnly

\* the next line of the response body arrives
ReadLine(line) ==
    /\ pc = "read"
    /\ line.kind \in {"done", "undecodable", "badshape"} \/ lines < MaxLines
    /\ line.kind = "delta" => Len(chunks) < MaxChunks
    /\ lines' = lines + 1
    /\ LET p == ParseLine(line) IN
          /\ served' = IF line.kind = "delta" /\ line.content # ""
                           THEN Append(served, line.content) ELSE served
          /\ IF p.act = "yield"
                 THEN /\ chunks' = Append(chunks, p.text)
                      /\ firstChunkAt' = IF firstChunkAt = -1 THEN clock
                                         ELSE firstChunkAt
                      /\ UNCHANGED <<pc, attempt, clock, how, raised>>
             ELSE IF p.act = "skip"
                 THEN UNCHANGED <<pc, attempt, chunks, clock, firstChunkAt,
                                  how, raised>>
             ELSE IF p.act = "break"
                 THEN /\ pc' = "done"
                      /\ how' = "done_marker"
                      /\ UNCHANGED <<attempt, chunks, clock, firstChunkAt, raised>>
             ELSE LET h == OnException(op) IN
                      /\ chunks' = chunks \o h.yield
                      /\ firstChunkAt' = IF firstChunkAt = -1 THEN clock
                                         ELSE firstChunkAt
                      /\ pc' = "done"
                      /\ how' = "unexpected"
                      /\ UNCHANGED <<attempt, clock, raised>>
    /\ lastRead' = IF line.kind \in MalformedKinds THEN line.kind ELSE "none"
    /\ UNCHANGED <<op, requests, n503, nHttp, nNet>>
    /\ StreamOnly

\* the response body ends without a [DONE] line
ReadEOF ==
    /\ pc = "read"
    /\ pc' = "done"
    /\ how' = "eof"
    /\ UNCHANGED <<op, attempt, chunks, served, lines, clock, firstChunkAt,
                   requests, n503, nHttp, nNet, raised>>
    /\ NoLine
    /\ StreamOnly

\* the connection is closed or lost while iter_lines is reading: iter_lines
\* raises a RequestException
ReadNetworkFailure ==
    /\ pc = "read"
    /\ nNet' = nNet + 1
    /\ Step(OnRequestException(op, attempt), "request_error")
    /\ lastRead' = "closed"
    /\ UNCHANGED <<op, requests, n503, nHttp>>
    /\ StreamOnly

NextStream ==
    \/ EncodeImage
    \/ PostNetworkFailure
    \/ PostUnexpected
    \/ \E status \in StatusCodes : PostResponse(status)
    \/ \E line \in Lines : ReadLine(line)
    \/ ReadEOF
    \/ ReadNetworkFailure

(***************************************************************************)
(* encode_image: the size of the image it encodes.  Image.thumbnail is     *)
(* Pillow's: it keeps an image that fits the box, else scales the longer   *)
(* side to the box and rounds the other side to the integer whose aspect   *)
(* ratio is nearest, at least 1.                                           *)
(***************************************************************************)
Abs(n) == IF n < 0 THEN -n ELSE n

Max(a, b) == IF a >= b THEN a ELSE b

Ceil(a, b) == IF a % b = 0 THEN a \div b ELSE (a \div b) + 1

\* width for height max_size when x / y >= aspect:
\* round_aspect(y * aspect, key = |aspect - n / y|)
RoundWidth(w, h) ==
    LET f == (max_size * w) \div h
        c == Ceil(max_size * w, h)
        key(n) == Abs(max_size * w - n * h)
    IN Max(IF key(f) <= key(c) THEN f ELSE c, 1)

\* height for width max_size otherwise:
\* round_aspect(x / aspect, key = 0 if n == 0 else |aspect - x / n|)
RoundHeight(w, h) ==
    LET f == (max_size * h) \div w
        c == Ceil(max_size * h, w)
        floorWins == f = 0 \/ Abs(w * f - max_size * h) * c <= Abs(w * c - max_size * h) * f
    IN Max(IF floorWins THEN f ELSE c, 1)

\* the size preserve_aspect_ratio() computes for the box (max_size, max_size)
Fit(w, h) == IF h >= w THEN <<RoundWidth(w, h), max_size>>
             ELSE <<max_size, RoundHeight(w, h)>>

\* img.thumbnail((max_size, max_size))
thumbnail(w, h) == IF max_size >= w /\ max_size >= h THEN <<w, h>> ELSE Fit(w, h)

\* encode_image fitting every image to the box
encode_image_size_AlwaysFit(w, h) == Fit(w, h)

\* if max(img.size) > max_size: img.thumbnail((max_size, max_size))
encode_image_size(w, h) == IF Max(w, h) > max_size THEN thumbnail(w, h) ELSE <<w, h>>

Sides == {1, 2, 100, max_size - 1, max_size, 1000, 2 * max_size, 2000, 3000}
             \cup {max_size + k : k \in 1..MaxOver}

InitImage ==
    /\ imgPc = "open"
    /\ img_size \in Sides \X Sides
    /\ out_size = <<0, 0>>

IdleImage ==
    /\ imgPc = "done"
    /\ img_size = <<1, 1>>
    /\ out_size = <<1, 1>>

EncodeImageSize ==
    /\ imgPc = "open"
    /\ out_size' = encode_image_size(img_size[1], img_size[2])
    /\ imgPc' = "done"
    /\ UNCHANGED img_size
    /\ UNCHANGED <<streamVars, tagVars, apiVars, keyVars, concVars, retVars>>

NextImage == EncodeImageSize

(***************************************************************************)
(* Properties of encode_image, checked under SpecImage.                    *)
(***************************************************************************)
\* C17: encode_image never enlarges an image; an image whose longer side
\* exceeds 672 px is encoded with that side at exactly 672 px and the other
\* side less than one pixel away from the proportional value, and an image
\* whose longer side is at most 672 px keeps its size.
C17_NeverUpscalesAndBounds ==
    imgPc = "done" =>
        LET w == img_size[1]
            h == img_size[2]
            ow == out_size[1]
            oh == out_size[2]
        IN /\ ow <= w /\ oh <= h /\ ow >= 1 /\ oh >= 1
           /\ IF Max(w, h) > 672
                  THEN /\ Max(ow, oh) = 672
                       /\ (w >= h) => (ow = 672 /\ Abs(oh * w - 672 * h) < w)
                       /\ (h >= w) => (oh = 672 /\ Abs(ow * h - 672 * w) < h)
                  ELSE out_size = img_size

C17_Witness ==
    /\ imgPc = "done"
    /\ img_size = <<2000, 1000>>
    /\ out_size = <<672, 336>>

(***************************************************************************)
(* Two calls in flight at once, for different images.  Every call of       *)
(* detect_objects and of generate_description_stream has a frame of its    *)
(* own for its local variables; the steps of the two calls interleave.     *)
(***************************************************************************)
Calls == {"c1", "c2"}

\* one frame for all calls, as with an accumulator kept on the service object
FrameOf_Shared(c) == "c1"

\* the frame that holds the locals of call c: unique_tags = set(),
\* `for attempt in range(max_retries)` and full_description = "" are local
FrameOf(c) == c

\* the content the remote of call c serves: each image has its own text
ContentFor(c) == IF c = "c1" THEN "a" ELSE "b"

ConcDetections == {DetectorFails, [ok |-> TRUE, boxes |-> <<1>>],
                   [ok |-> TRUE, boxes |-> <<2>>]}

ConcClassifications == {[state |-> "fail", scores |-> NoScores],
                        [state |-> "ok", scores |-> <<60, 0, 0>>],
                        [state |-> "ok", scores |-> <<0, 60, 0>>]}

ConcInputs ==
    {[kind |-> "tag", det |-> d, cls |-> k] : d \in ConcDetections, k \in ConcClassifications}
        \cup {[kind |-> "describe", det |-> DetectorFails,
               cls |-> [state |-> "fail", scores |-> NoScores]]}

NewFrame == [unique_tags |-> {}, attempt |-> 0, full_description |-> <<>>]

NoCall == [kind |-> "none", det |-> DetectorFails,
           cls |-> [state |-> "fail", scores |-> NoScores]]

InitConc ==
    /\ callIn \in [Calls -> ConcInputs]
    /\ callPc = [c \in Calls |-> "start"]
    /\ frames = [c \in Calls |-> NewFrame]
    /\ callOut = [c \in Calls |-> [tags |-> <<>>, text |-> <<>>]]
    /\ callEnv = [c \in Calls |-> [failures |-> 0, deltas |-> 0]]

IdleConc ==
    /\ callIn = [c \in Calls |-> NoCall]
    /\ callPc = [c \in Calls |-> "done"]
    /\ frames = [c \in Calls |-> NewFrame]
    /\ callOut = [c \in Calls |-> [tags |-> <<>>, text |-> <<>>]]
    /\ callEnv = [c \in Calls |-> [failures |-> 0, deltas |-> 0]]

ConcOnly == UNCHANGED <<streamVars, tagVars, apiVars, imgVars, keyVars, retVars>>

\* detect_objects: unique_tags = set() and the detector's block
TagDetect(c) ==
    /\ callIn[c].kind = "tag"
    /\ callPc[c] = "start"
    /\ frames' = [frames EXCEPT ![FrameOf(c)].unique_tags = Range(YoloTags(callIn[c].det))]
    /\ callPc' = [callPc EXCEPT ![c] = "classify"]
    /\ UNCHANGED <<callIn, callOut, callEnv>>
    /\ ConcOnly

\* detect_objects: unique_tags.update(self.classify_image(image_path))
TagClassify(c) ==
    /\ callIn[c].kind = "tag"
    /\ callPc[c] = "classify"
    /\ frames' = [frames EXCEPT ![FrameOf(c)].unique_tags =
                      @ \cup Range(classify_image(callIn[c].cls))]
    /\ callPc' = [callPc EXCEPT ![c] = "return"]
    /\ UNCHANGED <<callIn, callOut, callEnv>>
    /\ ConcOnly

\* detect_objects: return list(unique_tags)
TagReturn(c) ==
    /\ callIn[c].kind = "tag"
    /\ callPc[c] = "return"
    /\ \E final \in Orderings(frames[FrameOf(c)].unique_tags) :
          callOut' = [callOut EXCEPT ![c].tags = final]
    /\ callPc' = [callPc EXCEPT ![c] = "done"]
    /\ UNCHANGED <<callIn, frames, callEnv>>
    /\ ConcOnly

\* full_description = "" and the first `for attempt in range(max_retries)`
DescribeStart(c) ==
    /\ callIn[c].kind = "describe"
    /\ callPc[c] = "start"
    /\ frames' = [frames EXCEPT ![FrameOf(c)].attempt = 0,
                                ![FrameOf(c)].full_description = <<>>]
    /\ callPc' = [callPc EXCEPT ![c] = "post"]
    /\ UNCHANGED <<callIn, callOut, callEnv>>
    /\ ConcOnly

\* one attempt's requests.post: 200 opens the response, 503 and a failing
\* status go to the next attempt while attempts are left
DescribePost(c, status) ==
    /\ callIn[c].kind = "describe"
    /\ callPc[c] = "post"
    /\ LET f == FrameOf(c)
           a == OnStatus("description", status)
           h == IF a.next = "RequestException"
                    THEN OnRequestException("description", frames[f].attempt)
                    ELSE [yield |-> <<>>, sleep |-> a.sleep, next |-> a.next]
           text == frames[f].full_description \o h.yield
       IN IF h.next = "iterate"
              THEN /\ callPc' = [callPc EXCEPT ![c] = "read"]
                   /\ UNCHANGED <<frames, callOut, callEnv>>
          ELSE /\ callEnv' = [callEnv EXCEPT ![c].failures = @ + 1]
               /\ IF frames[f].attempt + 1 < max_retries
                      THEN /\ frames' = [frames EXCEPT ![f].attempt = @ + 1,
                                                       ![f].full_description = text]
                           /\ UNCHANGED <<callPc, callOut>>
                      ELSE /\ frames' = [frames EXCEPT ![f].full_description = text]
                           /\ callOut' = [callOut EXCEPT ![c].text = text]
                           /\ callPc' = [callPc EXCEPT ![c] = "done"]
    /\ UNCHANGED callIn
    /\ ConcOnly

\* one line of the response: a delta is yielded and added to
\* full_description, [DONE] ends the generator and the text is kept
DescribeRead(c, line) ==
    /\ callIn[c].kind = "describe"
    /\ callPc[c] = "read"
    /\ LET f == FrameOf(c)
           p == ParseLine(line)
       IN IF p.act = "yield"
              THEN /\ callEnv[c].deltas < MaxChunks
                   /\ frames' = [frames EXCEPT ![f].full_description = Append(@, p.text)]
                   /\ callEnv' = [callEnv EXCEPT ![c].deltas = @ + 1]
                   /\ UNCHANGED <<callPc, callOut>>
              ELSE /\ p.act = "break"
                   /\ callOut' = [callOut EXCEPT ![c].text = frames[f].full_description]
                   /\ callPc' = [callPc EXCEPT ![c] = "done"]
                   /\ UNCHANGED <<frames, callEnv>>
    /\ UNCHANGED callIn
    /\ ConcOnly

NextConc ==
    \E c \in Calls :
        \/ TagDetect(c)
        \/ TagClassify(c)
        \/ TagReturn(c)
        \/ DescribeStart(c)
        \/ \E status \in {200, 500, 503} : DescribePost(c, status)
        \/ \E line \in {[kind |-> "delta", content |-> ContentFor(c)],
                          [kind |-> "done", content |-> ""]} : DescribeRead(c, line)

(***************************************************************************)
(* Properties of the streaming client, checked under Spec.                 *)
(***************************************************************************)
IsError(c) == c \in ErrorChunks

ErrorCount(s) == Cardinality({i \in 1..Len(s) : IsError(s[i])})

EndsWithError(s) == s # <<>> /\ IsError(s[Len(s)])

ContentOf(s) == SelectSeq(s, LAMBDA c : ~IsError(c))

\* the generator ended because of a failure, not because the response ended
EndedByFailure == how \in {"image_error", "request_error", "unexpected", "exhausted"}

\* C1: a finished invocation of generate_description_stream either ended on
\* the remote's [DONE] line or its last chunk is the one error chunk it
\* yielded; it never ends with neither and never yields two error chunks.
C1_ExactlyOneTerminalOutcome ==
    (op = "description" /\ pc = "done") =>
        /\ ErrorCount(chunks) <= 1
        /\ \/ how = "done_marker" /\ ErrorCount(chunks) = 0
           \/ ErrorCount(chunks) = 1 /\ EndsWithError(chunks)

\* C2: when generate_description_stream ends on the remote's [DONE], the
\* chunks yielded over the whole invocation are exactly the non-empty content
\* deltas of the completed response, in arrival order, also when earlier
\* attempts failed after some deltas had arrived.
C2_ChunksAreTheCompletedResponse ==
    (op = "description" /\ pc = "done" /\ how = "done_marker") => chunks = served

\* C3: when the remote answers 503 on every one of the 10 attempts,
\* generate_description_stream ends with exactly one chunk, the
\* connection-failure error chunk, and no content chunk before it.
C3_ExhaustionYieldsConnectionError ==
    (op = "description" /\ pc = "done" /\ n503 = max_retries) =>
        chunks = <<ErrConnection>>

\* C4: when the remote answers 503 on the first k attempts (k < 10) and then
\* serves a response that is read to its end, generate_description_stream
\* yields exactly the content deltas of that response, no error chunk, and
\* the first chunk is yielded only after k backoff intervals.
C4_RetryThenSuccess ==
    (/\ op = "description"
     /\ pc = "done"
     /\ how \in {"done_marker", "eof"}
     /\ nNet = 0
     /\ nHttp = 0) =>
        /\ n503 < max_retries
        /\ chunks = served
        /\ ErrorCount(chunks) = 0
        /\ clock >= n503 * retry_delay
        /\ chunks # <<>> => firstChunkAt >= n503 * retry_delay

C4_Witness ==
    /\ op = "description"
    /\ pc = "done"
    /\ how = "done_marker"
    /\ n503 = 2
    /\ nNet = 0
    /\ nHttp = 0
    /\ chunks = <<"a", "b">>
    /\ firstChunkAt = 2 * retry_delay

\* C5: generate_image_prompt_stream never retries: it sends at most one
\* request and never sleeps, and when that request is answered 503 or fails
\* at the network level it yields exactly one error chunk, as its last chunk,
\* and stops; generate_description_stream goes on to another attempt after a
\* 503.
C5_PromptNeverRetries ==
    /\ op = "prompt" =>
          /\ requests <= 1
          /\ attempt = 0
          /\ clock = 0
          /\ (n503 + nHttp + nNet > 0) =>
                /\ pc = "done"
                /\ how = "request_error"
                /\ ErrorCount(chunks) = 1
                /\ chunks = Append(served, ErrPrompt)
    /\ (op = "description" /\ n503 > 0 /\ n503 < max_retries /\ nNet = 0 /\ nHttp = 0) =>
          (pc = "post" /\ requests = n503) \/ requests = n503 + 1

C5_Witness ==
    /\ op = "prompt"
    /\ pc = "done"
    /\ n503 = 1
    /\ requests = 1
    /\ chunks = <<ErrPrompt>>

\* C6: when every attempt of generate_description_stream fails at the network
\* level, no error chunk is yielded after any of the first 9 failures, each
\* failure is followed by one backoff, and after the 10th failure exactly one
\* error chunk, the connection-failure chunk, is yielded as the last chunk
\* and the generator ends without raising.
C6_NetworkFailuresExhaustRetries ==
    (/\ op = "description"
     /\ n503 = 0
     /\ nHttp = 0
     /\ how \in {"running", "exhausted"}
     /\ nNet = requests) =>
        /\ clock = nNet * retry_delay
        /\ ~raised
        /\ nNet < max_retries => (ErrorCount(chunks) = 0 /\ pc # "done")
        /\ nNet = max_retries =>
              /\ pc = "done"
              /\ how = "exhausted"
              /\ ErrorCount(chunks) = 1
              /\ chunks[Len(chunks)] = ErrConnection

C6_Witness ==
    /\ op = "description"
    /\ pc = "done"
    /\ nNet = max_retries
    /\ requests = max_retries
    /\ n503 = 0
    /\ nHttp = 0
    /\ chunks = <<"a", ErrConnection>>

\* C7: no failure of a streaming call is raised to the caller: when either
\* generator ends because of a failure, the chunks yielded before the failure
\* are followed by an in-band error chunk and no exception has left the
\* generator.
C7_FailuresAreInBand ==
    (pc = "done" /\ EndedByFailure) =>
        /\ ~raised
        /\ EndsWithError(chunks)
        /\ ErrorCount(chunks) = 1


(***************************************************************************)
(* Properties of the tag aggregator, checked under SpecTags.               *)
(***************************************************************************)
\* C12: a line of the response that is no well-formed delta is skipped: after
\* reading it the generator is still reading the response and has yielded no
\* error chunk.
C12_MalformedLinesAreSkipped ==
    lastRead \in MalformedKinds => (pc = "read" /\ ErrorCount(chunks) = 0)

\* C13: when the connection is closed while the response is being read, the
\* generator ends there: it opens no new request and yields no error chunk.
C13_CloseEndsTheStream ==
    lastRead = "closed" => (pc = "done" /\ ErrorCount(chunks) = 0)

\* C20: once generate_description_stream has met an unexpected failure, while
\* posting or while reading, it has ended; the failure's error chunk is its
\* last chunk and its only error chunk, no request followed the failing
\* attempt, and the only waits were the backoffs of the earlier attempts.
C20_UnexpectedFailureStopsAtOnce ==
    (op = "description" /\ \E i \in 1..Len(chunks) : chunks[i] = ErrUnexpected) =>
        /\ pc = "done"
        /\ how = "unexpected"
        /\ ErrorCount(chunks) = 1
        /\ chunks[Len(chunks)] = ErrUnexpected
        /\ requests = attempt + 1
        /\ clock = retry_delay * (n503 + nHttp + nNet)

C20_Witness ==
    /\ op = "description"
    /\ pc = "done"
    /\ attempt = 2
    /\ n503 = 1
    /\ nNet = 1
    /\ lines = 2
    /\ chunks = <<"a", ErrUnexpected>>
    /\ clock = 2 * retry_delay

\* C21: generate_description_stream posts at most 10 requests, has waited
\* exactly one backoff of 5 seconds for every attempt that failed before the
\* current one, and, every attempt ending, reaches the end of its chunks.
C21_BoundedAndTerminates ==
    /\ [](op = "description" =>
             /\ requests <= 10
             /\ attempt < 10
             /\ pc \in {"post", "read"} =>
                   /\ clock = 5 * attempt
                   /\ requests = IF pc = "post" THEN attempt ELSE attempt + 1)
    /\ (op = "description" => <>(pc = "done"))

C21_Witness ==
    /\ op = "description"
    /\ pc = "done"
    /\ requests = 10
    /\ n503 = 4
    /\ nHttp = 3
    /\ nNet = 3
    /\ chunks = <<"a", ErrConnection>>

\* C22: encode_image raises on an image it cannot read, it returns no empty
\* text; generate_description_stream then yields the image-read error chunk
\* as its only chunk and ends, without a request, a wait or a retry.
C22_UnreadableImageEndsAtOnce ==
    /\ encode_image(FALSE) = "raise"
    /\ (\E i \in 1..Len(chunks) : chunks[i] = ErrImage) =>
          /\ op = "description"
          /\ pc = "done"
          /\ how = "image_error"
          /\ chunks = <<ErrImage>>
          /\ requests = 0
          /\ attempt = 0
          /\ clock = 0

C22_Witness ==
    /\ op = "description"
    /\ pc = "done"
    /\ how = "image_error"
    /\ chunks = <<ErrImage>>
    /\ requests = 0

\* C23: in generate_description_stream an error status other than 503 costs
\* one attempt and one backoff like every failed attempt, and the body of the
\* error response is not read; when all 10 attempts get such a status the only
\* chunk is the connection-failure chunk.
C23_ErrorStatusIsRetried ==
    (op = "description" /\ nHttp > 0) =>
        /\ pc \in {"post", "read"} =>
              /\ attempt = n503 + nHttp + nNet
              /\ clock = 5 * attempt
              /\ ErrorCount(chunks) = 0
        /\ nHttp = 10 =>
              /\ pc = "done"
              /\ chunks = <<ErrConnection>>
              /\ requests = 10
              /\ clock = 50

C23_Witness ==
    /\ op = "description"
    /\ pc = "done"
    /\ nHttp = 10
    /\ requests = 10
    /\ chunks = <<ErrConnection>>

\* C10: the list detect_objects returns holds no two equal entries, however
\* often the detector reports a label and whether or not the classifier
\* reports it too, and it holds every label either model reported.
C10_TagsHaveNoDuplicates ==
    tagPc = "done" =>
        /\ \A i, j \in 1..Len(final_tags) : final_tags[i] = final_tags[j] => i = j
        /\ Range(final_tags) = Range(YoloTags(detector)) \cup Range(classify_image(classifier))

C10_Witness ==
    /\ tagPc = "done"
    /\ detector = [ok |-> TRUE, boxes |-> <<2, 2>>]
    /\ classifier.state = "ok"
    /\ classifier.scores[1] = 60
    /\ classifier.scores[3] = 16
    /\ Len(final_tags) = 2

\* C11: detect_objects returns a list whichever model fails: when the
\* detector raises the result is exactly the classifier's tags, when the
\* classifier is missing or raises it is exactly the names of the detected
\* boxes, and when both fail it is empty.
C11_ModelFailuresAreIsolated ==
    tagPc = "done" =>
        /\ ~detector.ok => Range(final_tags) = Range(classify_image(classifier))
        /\ classifier.state # "ok" =>
              Range(final_tags) = {names[detector.boxes[i]] : i \in 1..Len(detector.boxes)}
        /\ (~detector.ok /\ classifier.state # "ok") => final_tags = <<>>

C11_Witness ==
    /\ tagPc = "done"
    /\ ~detector.ok
    /\ classifier.state = "ok"
    /\ classifier.scores[2] = 60
    /\ final_tags = << <<"E", " ", "c">> >>

Uppercase == {"A", "B", "C", "D", "E", "F", "G", "H", "I", "J", "K", "L", "M",
              "N", "O", "P", "Q", "R", "S", "T", "U", "V", "W", "X", "Y", "Z"}

\* C15: every tag detect_objects returns is normalized: it holds no uppercase
\* letter and no underscore.
C15_TagsAreNormalized ==
    tagPc = "done" =>
        \A i \in 1..Len(final_tags) : \A j \in 1..Len(final_tags[i]) :
            final_tags[i][j] \notin Uppercase \cup {"_"}

\* place of a class in the order of falling scores: one more than the number
\* of classes with a higher score
Rank(scores, idx) == 1 + Cardinality({d \in DOMAIN scores : scores[d] > scores[idx]})

\* C16: a tag that only the classifier contributed belongs to a class that is
\* among the 10 highest and whose percentage is strictly greater than 15; a
\* class at exactly 15% or below contributes nothing.
C16_ClassifierThreshold ==
    (tagPc = "done" /\ classifier.state = "ok") =>
        \A t \in Range(final_tags) \ Range(YoloTags(detector)) :
            \E idx \in DOMAIN labels_map :
                /\ Replace(labels_map[idx]) = t
                /\ classifier.scores[idx] > 15
                /\ Rank(classifier.scores, idx) <= 10

C16_Witness ==
    /\ tagPc = "done"
    /\ detector = [ok |-> TRUE, boxes |-> <<>>]
    /\ classifier.state = "ok"
    /\ classifier.scores[1] = 15
    /\ classifier.scores[2] = 16
    /\ classifier.scores[3] = 60
    /\ Range(final_tags) = {<<"E", " ", "c">>, <<"c", "a", "t">>}


(***************************************************************************)
(* Properties of the orchestrator's relays, checked under SpecApi.         *)
(***************************************************************************)
\* the text of an event: the frame without "data: " and the two newlines
Unframe(event) == SubSeq(event, 7, Len(event) - 2)

RECURSIVE Unframes(_)
Unframes(evs) ==
    IF evs = <<>> THEN <<>> ELSE <<Unframe(Head(evs))>> \o Unframes(Tail(evs))

\* C8: a relay started by the orchestrator with api_url, api_key and
\* model_name starts a stream of the client, and every request of that stream
\* goes to the configured endpoint URL, or to the process-wide default when no
\* URL is configured.
C8_RequestsGoToConfiguredEndpoint ==
    relay.pc = "done" =>
        /\ clientRequests # <<>>
        /\ \A i \in 1..Len(clientRequests) :
              clientRequests[i] = IF relay.api_url.none THEN LLM_API_URL
                                  ELSE relay.api_url.value

\* C9: when a description relay (GET /stream/{record_id}) on an existing
\* record has ended, its last event is the [DONE] marker, the events before
\* it are the relayed chunks, and the record's description is the
\* concatenation of those chunks.
C9_RelayPersistsThenDone ==
    (relay.pc = "done" /\ relay.kind = "stream") =>
        /\ events # <<>>
        /\ events[Len(events)] = Frame(DoneText)
        /\ records[relay.id].description
               = Concat(Unframes(SubSeq(events, 1, Len(events) - 1)))

(***************************************************************************)
(* Properties of concurrent calls, checked under SpecConc.                 *)
(***************************************************************************)
\* the text a describe call has when its remote has served n deltas
OwnText(c, n) == [i \in 1..n |-> ContentFor(c)]

\* C14: whatever the interleaving, each call sees only its own steps: a
\* tagging call's tag set holds the tags of its own image and it returns what
\* detect_objects returns for that image alone; a describe call's attempt
\* counter counts its own failed attempts and its accumulated text is the
\* deltas of its own remote.
C14_CallsAreIndependent ==
    \A c \in Calls :
        LET frame == frames[FrameOf(c)]
            in == callIn[c]
        IN /\ (in.kind = "tag" /\ callPc[c] = "classify") =>
                  frame.unique_tags = Range(YoloTags(in.det))
           /\ (in.kind = "tag" /\ callPc[c] = "return") =>
                  frame.unique_tags = UniqueTags(in.det, in.cls)
           /\ (in.kind = "tag" /\ callPc[c] = "done") =>
                  callOut[c].tags \in detect_objects(in.det, in.cls)
           /\ (in.kind = "describe" /\ callPc[c] \in {"post", "read"}) =>
                  /\ frame.attempt = callEnv[c].failures
                  /\ frame.full_description = OwnText(c, callEnv[c].deltas)
           /\ (in.kind = "describe" /\ callPc[c] = "done") =>
                  ContentOf(callOut[c].text) = OwnText(c, callEnv[c].deltas)

C14_Witness ==
    /\ callIn["c1"].kind = "tag"
    /\ callIn["c2"].kind = "describe"
    /\ callPc["c1"] = "return"
    /\ frames["c1"].unique_tags = {<<"c", "a", "t">>, <<"E", " ", "c">>}
    /\ callPc["c2"] = "read"
    /\ frames["c2"].attempt = 2
    /\ frames["c2"].full_description = <<"b", "b">>

\* C24: a prompt relay exists only for a record that is present and has a
\* description that is not empty, a request to the remote is made only by a
\* relay, and no record has an image_prompt while its description is empty.
C24_PromptNeedsDescription ==
    /\ (relay.pc \in {"open", "done"} /\ relay.kind = "prompt") =>
          /\ records[relay.id].present
          /\ records[relay.id].description # <<>>
    /\ clientRequests # <<>> => relay.pc = "done"
    /\ \A id \in 1..MaxRecords :
          ~records[id].image_prompt.none => records[id].description # <<>>

\* /generate-prompt was refused with 400 for a record whose /stream has run
C24_Witness ==
    /\ httpStatus = 400
    /\ relay.pc = "done"
    /\ relay.kind = "stream"
    /\ records[relay.id].present
    /\ records[relay.id].description = <<>>
    /\ records[relay.id].image_prompt.none
    /\ clientRequests = <<>>

\* the number of days a history_retention_days value stands for: "1" and "+1"
\* for 1, "2" and " 2" for 2; 0 when it stands for no positive integer
RetainDays(row) ==
    IF ~row.present THEN 0
    ELSE IF row.value \in {<<49>>, <<43, 49>>} THEN 1
    ELSE IF row.value \in {<<50>>, <<32, 50>>} THEN 2
    ELSE 0

\* C25: a run of enforce_retention_policy, at startup or after an update of
\* history_retention_days, deletes the stored records created before
\* utcnow - days when the setting is a positive number of days, keeps every
\* other record, and deletes nothing when the setting is absent, empty, zero,
\* negative or no integer.
C25_RetentionDeletesExactlyTheOld ==
    [][lastRequest' \in {"settings", "startup"} =>
          LET days == RetainDays(retention_setting') IN
          \A id \in 1..MaxOld :
              image_records'[id] =
                  IF /\ days > 0
                     /\ image_records[id].status = "stored"
                     /\ image_records[id].created_at < utcnow - days
                      THEN [status |-> "deleted",
                            created_at |-> image_records[id].created_at]
                      ELSE image_records[id]]_vars

\* after the setting became "1" on day 3, the record of day 1 is gone and the
\* record of day 2, created exactly at the cutoff, is kept
C25_Witness ==
    /\ lastRequest = "settings"
    /\ retention_setting = [present |-> TRUE, value |-> <<49>>]
    /\ utcnow = 3
    /\ image_records[1] = [status |-> "deleted", created_at |-> 1]
    /\ image_records[2] = [status |-> "stored", created_at |-> 2]

\* C18: the credential survives the settings store: decode_key undoes
\* encode_key for every credential, so that, once a credential has been set,
\* GET /settings returns the one set last and a stream handler uses the one
\* set last in its call of the client.
C18_CredentialRoundTrip ==
    /\ \A k \in SettingValues("llm_api_key") : decode_key(encode_key(k)) = k
    /\ ~lastKey.none =>
          /\ "llm_api_key" \in DOMAIN get_settings(settings)
          /\ get_settings(settings)["llm_api_key"] = lastKey.value
    /\ relay.pc = "open" => relay.api_key = lastKey

C18_Witness ==
    /\ lastKey = [none |-> FALSE, value |-> <<89, 81, 61, 61>>]
    /\ settings["llm_api_key"].value = <<87, 86, 69, 57, 80, 81, 61, 61>>
    /\ relay.pc = "open"
    /\ relay.api_key.value = <<89, 81, 61, 61>>


Init == InitStream /\ IdleTags /\ IdleApi /\ IdleImage /\ IdleKey /\ IdleConc /\ IdleRetention

Next == NextStream

Spec == Init /\ [][Next]_vars

\* the generator is run to its end by its consumer, and every attempt of the
\* remote ends: a step that is possible is taken
SpecLive == Init /\ [][Next]_vars /\ WF_vars(Next)

TagsInit == IdleStream /\ InitTags /\ IdleApi /\ IdleImage /\ IdleKey /\ IdleConc /\ IdleRetention

SpecTags == TagsInit /\ [][NextTags]_vars

ApiInit == IdleStream /\ IdleTags /\ InitApi /\ IdleImage /\ IdleKey /\ IdleConc /\ IdleRetention

SpecApi == ApiInit /\ [][NextApi]_vars

ImageInit == IdleStream /\ IdleTags /\ IdleApi /\ InitImage /\ IdleKey /\ IdleConc /\ IdleRetention

SpecImage == ImageInit /\ [][NextImage]_vars

KeyInit == IdleStream /\ IdleTags /\ IdleApi /\ IdleImage /\ InitKey /\ IdleConc /\ IdleRetention

SpecKey == KeyInit /\ [][NextKey]_vars

ConcInit == IdleStream /\ IdleTags /\ IdleApi /\ IdleImage /\ IdleKey /\ InitConc
                /\ IdleRetention

SpecConc == ConcInit /\ [][NextConc]_vars

RetentionInit == IdleStream /\ IdleTags /\ IdleApi /\ IdleImage /\ IdleKey /\ IdleConc
                     /\ InitRetention

SpecRetention == RetentionInit /\ [][NextRetention]_vars

=============================================================================
